---- MODULE Spec2Model ----
(***************************************************************************)
(* Model of the bsexp crate: the variable-length integer codec (vli.rs),   *)
(* the fixed-width S-expression format (lib.rs) and the pool container     *)
(* format (serialization.rs).                                              *)
(*                                                                         *)
(* A u64 is the set of its bit positions that are 1, a subset of 0..63, so *)
(* that shifts, masks and comparisons keep the 64-bit width of the source. *)
(* A u8 of the VLI codec is likewise a subset of 0..7.                     *)
(***************************************************************************)
EXTENDS Integers, Sequences, FiniteSets, TLC

VARIABLES
    \* vli.rs, as its test drives it
    written,    \* the values encoded so far, in order
    ends,       \* where each encoding ends in the buffer
    stream,     \* the byte buffer the reader reads
    cut,        \* the buffer lost the end of its last encoding
    raw,        \* the number of bytes in the buffer no encoder wrote
    results,    \* what each read_vli_bytes call returned and consumed
    \* lib.rs, to_bytes and from_bytes
    exp,        \* the expression given to to_bytes
    enc,        \* the pools of to_bytes when serialize has returned
    buf,        \* the bytes given to from_bytes
    damage,     \* what happened to buf since to_bytes returned it
    outcome,    \* what from_bytes returned
    \* serialization.rs, to_bsefile and from_bsefile
    xs,         \* the expressions given to to_bsefile
    file,       \* the bytes to_bsefile returned
    decoded,    \* what from_bsefile returned
    fstage      \* "start", "encoded" or "decoded"

vliVars == <<written, ends, stream, cut, raw, results>>
fixVars == <<exp, enc, buf, damage, outcome>>
fileVars == <<xs, file, decoded, fstage>>
vars == <<written, ends, stream, cut, raw, results,
          exp, enc, buf, damage, outcome,
          xs, file, decoded, fstage>>

(***************************************************************************)
(* Bounds of the model.                                                    *)
(***************************************************************************)
MaxVals == 2
MaxRaw == 9
MaxTail == 1
MaxNodes == 4

(***************************************************************************)
(* u64 and u8 arithmetic.                                                  *)
(***************************************************************************)
BitIdx == 0..63

\* 2^k for k in 0..30
Pow2Table == <<1, 2, 4, 8, 16, 32, 64, 128, 256, 512, 1024, 2048, 4096, 8192,
               16384, 32768, 65536, 131072, 262144, 524288, 1048576, 2097152,
               4194304, 8388608, 16777216, 33554432, 67108864, 134217728,
               268435456, 536870912, 1073741824>>
Pow2(k) == Pow2Table[k + 1]

\* a small literal as u64
U64(n) == {i \in 0..30 : (n \div Pow2(i)) % 2 = 1}

\* the literals of vli.rs
B1000_0000 == U64(128)
B0111_1111 == U64(127)
B1111_1111 == U64(255)
B0 == U64(0)
B1 == U64(1)

\* x << k on u64 (bits shifted past bit 63 are dropped)
Shl(x, k) == {i + k : i \in {j \in x : j + k <= 63}}

\* x >> k on u64
Shr(x, k) == {i - k : i \in {j \in x : j >= k}}

BitAnd(x, y) == x \cap y

BitOr(x, y) == x \cup y

\* x < y on u64 : the highest bit in which they differ is a bit of y
Lt(x, y) == \E i \in y \ x : \A j \in x \ y : j < i

\* x as u8 : the low 8 bits
AsU8(x) == x \cap 0..7

\* b as u64, for a u8 b : zero extension
AsU64(b) == b

\* the number a u64 below 2^31 stands for
RECURSIVE Num(_)
Num(x) == IF x = {} THEN 0
          ELSE LET i == CHOOSE j \in x : TRUE
               IN  Pow2(i) + Num(x \ {i})

(***************************************************************************)
(* vli.rs : to_vli_bytes                                                   *)
(***************************************************************************)
\* a length that moves every boundary up by one value
VliLenInclusive(self) ==
    IF ~Lt(Shl(B1, 1 * 7), self) THEN 1
    ELSE IF ~Lt(Shl(B1, 2 * 7), self) THEN 2
    ELSE IF ~Lt(Shl(B1, 3 * 7), self) THEN 3
    ELSE IF ~Lt(Shl(B1, 4 * 7), self) THEN 4
    ELSE IF ~Lt(Shl(B1, 5 * 7), self) THEN 5
    ELSE IF ~Lt(Shl(B1, 6 * 7), self) THEN 6
    ELSE IF ~Lt(Shl(B1, 7 * 7), self) THEN 7
    ELSE IF ~Lt(Shl(B1, 8 * 7), self) THEN 8
    ELSE 9

\* let len = match self { ... }
VliLen(self) ==
    IF Lt(self, Shl(B1, 1 * 7)) THEN 1
    ELSE IF Lt(self, Shl(B1, 2 * 7)) THEN 2
    ELSE IF Lt(self, Shl(B1, 3 * 7)) THEN 3
    ELSE IF Lt(self, Shl(B1, 4 * 7)) THEN 4
    ELSE IF Lt(self, Shl(B1, 5 * 7)) THEN 5
    ELSE IF Lt(self, Shl(B1, 6 * 7)) THEN 6
    ELSE IF Lt(self, Shl(B1, 7 * 7)) THEN 7
    ELSE IF Lt(self, Shl(B1, 8 * 7)) THEN 8
    ELSE 9

\* a continuation bit that is also set on the last byte
mskInclusive(len, n) == IF len >= n THEN B1000_0000 ELSE B0

\* let msk = |n| if len > n { 0b1000_0000 } else { 0 };
msk(len, n) == IF len > n THEN B1000_0000 ELSE B0

\* let sec = |m: u64, n: usize| ((self & (m << (n * 7))) >> (n * 7)) as u8;
sec(self, m, n) == AsU8(Shr(BitAnd(self, Shl(m, n * 7)), n * 7))

\* the ([u8; 9], usize) that to_vli_bytes returns
to_vli_bytes(self) ==
    LET len == VliLen(self)
    IN  [bytes |-> << BitOr(sec(self, B0111_1111, 0), msk(len, 1)),
                      BitOr(sec(self, B0111_1111, 1), msk(len, 2)),
                      BitOr(sec(self, B0111_1111, 2), msk(len, 3)),
                      BitOr(sec(self, B0111_1111, 3), msk(len, 4)),
                      BitOr(sec(self, B0111_1111, 4), msk(len, 5)),
                      BitOr(sec(self, B0111_1111, 5), msk(len, 6)),
                      BitOr(sec(self, B0111_1111, 6), msk(len, 7)),
                      BitOr(sec(self, B0111_1111, 7), msk(len, 8)),
                      sec(self, B1111_1111, 8) >>,
         len |-> len]

\* &v[0..l] : the bytes a caller appends to its buffer
VliSlice(self) == LET e == to_vli_bytes(self) IN SubSeq(e.bytes, 1, e.len)

(***************************************************************************)
(* vli.rs : read_vli_bytes                                                 *)
(***************************************************************************)
\* the reader of the test: cursor.next().ok_or(()) over a byte buffer, at
\* position p (bytes consumed so far)
Reader(s, p) == IF p < Len(s) THEN [ok |-> TRUE, byte |-> s[p + 1]]
                ELSE [ok |-> FALSE, byte |-> {}]

\* .take(9) instead of .take(8)
TakeNine == 8 + 1

\* .take(8)
TakeCount == 8

\* the accumulator without the mask of the continuation bit
ContinueAccNoMask(acc, x, i) == BitOr(acc, Shl(AsU64(x), i * 7))

\* Continue(acc | (((x & 0b0111_1111) as u64) << (i * 7)))
ContinueAcc(acc, x, i) == BitOr(acc, Shl(AsU64(BitAnd(x, B0111_1111)), i * 7))

\* Break(Ok(acc | ((x as u64) << (i * 7))))
BreakAcc(acc, x, i) == BitOr(acc, Shl(AsU64(x), i * 7))

\* a reader error taken for the end of the value
OnReaderErrSwallow(acc) == [ok |-> TRUE, val |-> acc]

\* Err(e) => Break(Err(e))
OnReaderErr(acc) == [ok |-> FALSE, val |-> B0]

\* Continue(x) => reader().map(|y| x | ((y & 0b1111_1111) as u64) << 56)
FinalByte(x, y) == BitOr(x, Shl(AsU64(BitAnd(y, B1111_1111)), 56))

\* the try_fold over repeat_with(&mut reader).take(8).enumerate(), then the
\* match on its ControlFlow; s is the byte source and p its position when
\* read_vli_bytes is called.  calls counts the calls of reader, consumed the
\* bytes it handed out.
RECURSIVE ReadFold(_, _, _, _)
ReadFold(s, p, i, acc) ==
    IF i = TakeCount
    THEN LET y == Reader(s, p + i)
         IN  IF y.ok
             THEN [ok |-> TRUE, val |-> FinalByte(acc, y.byte),
                   calls |-> i + 1, consumed |-> i + 1]
             ELSE [ok |-> FALSE, val |-> B0,
                   calls |-> i + 1, consumed |-> i]
    ELSE LET x == Reader(s, p + i)
         IN  IF ~x.ok
             THEN LET r == OnReaderErr(acc)
                  IN  [ok |-> r.ok, val |-> r.val,
                       calls |-> i + 1, consumed |-> i]
             ELSE IF BitAnd(x.byte, B1000_0000) # B0
                  THEN ReadFold(s, p, i + 1, ContinueAcc(acc, x.byte, i))
                  ELSE [ok |-> TRUE, val |-> BreakAcc(acc, x.byte, i),
                        calls |-> i + 1, consumed |-> i + 1]

read_vli_bytes(s, p) == ReadFold(s, p, 0, B0)

(***************************************************************************)
(* The codec driven as test_vli_encode_decode drives it: values are        *)
(* encoded one after the other into one buffer, then decoded from a cursor *)
(* over that buffer until the first error.  The buffer may also lose the   *)
(* end of its last encoding, or carry bytes no encoder wrote.              *)
(***************************************************************************)
\* 2^k - 1
Ones(k) == {i \in BitIdx : i < k}

\* the seed of the test, 0x1234_5678_9ABC_DEF0, most significant digit first
SeedDigits == <<1, 2, 3, 4, 5, 6, 7, 8, 9, 10, 11, 12, 13, 14, 15, 0>>
Seed == {i \in BitIdx : (SeedDigits[16 - (i \div 4)] \div Pow2(i % 4)) % 2 = 1}

\* the values encoded: 2^(7k) - 1 for every k in 0..8 (0, 127, 16383, ...,
\* 2^56 - 1), 2^64 - 1, the powers 128, 16384, 2^35, 2^49 and 2^56, and the
\* seed
Values == {Ones(k) : k \in {0, 7, 14, 21, 28, 35, 42, 49, 56, 64}}
          \cup {Shl(B1, k) : k \in {7, 14, 35, 49, 56}}
          \cup {Seed}

\* bytes no encoder wrote: one that continues, one that ends a value
RawBytes == {U64(255), U64(42)}

Cursor == IF results = <<>> THEN 0
          ELSE results[Len(results)].start + results[Len(results)].consumed

VliInit ==
    /\ written = <<>>
    /\ ends = <<>>
    /\ stream = <<>>
    /\ cut = FALSE
    /\ raw = 0
    /\ results = <<>>

\* buf.extend_from_slice(&v[0..l]) for one value
VliWrite(v) ==
    /\ Len(written) < MaxVals
    /\ ~cut /\ raw = 0 /\ results = <<>>
    /\ written' = Append(written, v)
    /\ stream' = stream \o VliSlice(v)
    /\ ends' = Append(ends, Len(stream'))
    /\ UNCHANGED <<cut, raw, results>>
    /\ UNCHANGED <<fixVars, fileVars>>

\* the buffer loses the last n bytes of its last encoding
VliTruncate(n) ==
    /\ written # <<>>
    /\ ~cut /\ raw = 0 /\ results = <<>>
    /\ n >= 1
    /\ n <= ends[Len(ends)] - (IF Len(ends) = 1 THEN 0 ELSE ends[Len(ends) - 1])
    /\ stream' = SubSeq(stream, 1, Len(stream) - n)
    /\ cut' = TRUE
    /\ UNCHANGED <<written, ends, raw, results>>
    /\ UNCHANGED <<fixVars, fileVars>>

\* a byte no encoder wrote follows in the buffer
VliAppendRaw(b) ==
    /\ ~cut /\ results = <<>>
    /\ raw < MaxRaw
    /\ written # <<>> => raw < MaxTail
    /\ stream' = Append(stream, b)
    /\ raw' = raw + 1
    /\ UNCHANGED <<written, ends, cut, results>>
    /\ UNCHANGED <<fixVars, fileVars>>

\* <u64 as VLI>::read_vli_bytes(|| cursor.next().ok_or(())), called again
\* while the last call returned Ok (map_while(|x| x.ok()))
VliRead ==
    /\ IF results = <<>> THEN TRUE ELSE results[Len(results)].ok
    /\ Len(results) <= MaxVals + MaxRaw
    /\ LET r == read_vli_bytes(stream, Cursor)
       IN  results' = Append(results, [ok |-> r.ok, val |-> r.val,
                                       calls |-> r.calls,
                                       consumed |-> r.consumed,
                                       start |-> Cursor])
    /\ UNCHANGED <<written, ends, stream, cut, raw>>
    /\ UNCHANGED <<fixVars, fileVars>>

VliNext ==
    \/ \E v \in Values : VliWrite(v)
    \/ \E n \in 1..9 : VliTruncate(n)
    \/ \E b \in RawBytes : VliAppendRaw(b)
    \/ VliRead

(***************************************************************************)
(* lib.rs : BSExp, and Idx = i32 with its little-endian bytes.  A byte of  *)
(* this format is an integer in 0..255.                                    *)
(***************************************************************************)
Atom(value) == [kind |-> "Atom", bytes |-> value, items |-> <<>>]
List(value) == [kind |-> "List", bytes |-> <<>>, items |-> value]

\* byte k of a non-negative i32
ByteOf(n, k) == (n \div Pow2(8 * k)) % 256

\* !index on i32
Not32(n) == -n - 1

\* Idx::to_le_bytes : two's complement, least significant byte first
ToLeBytes(n) ==
    IF n >= 0
    THEN <<ByteOf(n, 0), ByteOf(n, 1), ByteOf(n, 2), ByteOf(n, 3)>>
    ELSE <<255 - ByteOf(Not32(n), 0), 255 - ByteOf(Not32(n), 1),
           255 - ByteOf(Not32(n), 2), 255 - ByteOf(Not32(n), 3)>>

\* Idx::from_le_bytes
FromLeBytes(b) ==
    IF b[4] < 128
    THEN b[1] + 256 * b[2] + 65536 * b[3] + 16777216 * b[4]
    ELSE Not32((255 - b[1]) + 256 * (255 - b[2]) + 65536 * (255 - b[3])
               + 16777216 * (255 - b[4]))

(***************************************************************************)
(* lib.rs : to_bytes and serialize                                         *)
(***************************************************************************)
\* a lookup that never finds the atom
SymbolGetMiss(symbol_table, a) == [found |-> FALSE, index |-> 0]

\* symbol_table.get(a)
SymbolGet(symbol_table, a) ==
    IF a \in DOMAIN symbol_table
    THEN [found |-> TRUE, index |-> symbol_table[a]]
    ELSE [found |-> FALSE, index |-> 0]

\* an atom reference that negates the index
AtomRefNeg(index) == -index

\* node_pool.push(!index) : the reference to the atom at offset index
AtomRef(index) == Not32(index)

\* the BSExp::Atom arm of serialize; st holds symbol_table, constant_pool and
\* node_pool
SerializeAtom(a, st) ==
    LET got == SymbolGet(st.symbol_table, a)
    IN  IF got.found
        THEN [st EXCEPT !.node_pool = Append(@, AtomRef(got.index))]
        ELSE LET index == Len(st.constant_pool)
             IN  [symbol_table |-> (a :> index) @@ st.symbol_table,
                  constant_pool |-> st.constant_pool \o ToLeBytes(Len(a)) \o a,
                  node_pool |-> Append(st.node_pool, AtomRef(index))]

RECURSIVE serialize(_, _)
RECURSIVE SerializeItems(_, _, _)
\* for item in l { item.serialize(...) }, from item i on
SerializeItems(l, i, st) ==
    IF i > Len(l) THEN st
    ELSE SerializeItems(l, i + 1, serialize(l[i], st))

serialize(e, st) ==
    IF e.kind = "Atom"
    THEN SerializeAtom(e.bytes, st)
    ELSE SerializeItems(e.items, 1,
                        [st EXCEPT !.node_pool = Append(@, Len(e.items))])

EmptyPools == [symbol_table |-> <<>>, constant_pool |-> <<>>,
               node_pool |-> <<>>]

RECURSIVE FlattenIdx(_, _)
\* node_pool.into_iter().map(|idx| idx.to_le_bytes()).flatten(), from i on
FlattenIdx(node_pool, i) ==
    IF i > Len(node_pool) THEN <<>>
    ELSE ToLeBytes(node_pool[i]) \o FlattenIdx(node_pool, i + 1)

\* the result of to_bytes, from the pools serialize has filled
Assemble(st) ==
    ToLeBytes(Len(st.constant_pool)) \o ToLeBytes(Len(st.node_pool))
    \o st.constant_pool \o FlattenIdx(st.node_pool, 1)

to_bytes(e) == Assemble(serialize(e, EmptyPools))

(***************************************************************************)
(* lib.rs : read_idx, from_bytes and deserialize                           *)
(***************************************************************************)
\* read_idx on the byte cursor at position pos: the four next() calls
read_idx(bytes, pos) ==
    IF pos + 4 <= Len(bytes)
    THEN [ok |-> TRUE, val |-> FromLeBytes(SubSeq(bytes, pos + 1, pos + 4)),
          pos |-> pos + 4]
    ELSE [ok |-> FALSE, val |-> 0, pos |-> Len(bytes)]

\* .take(n as usize) over a source of at most avail items: a negative n is,
\* as usize, more than any buffer holds
TakeLen(n, avail) == IF n < 0 \/ n > avail THEN avail ELSE n

NoExp == [kind |-> "None", bytes |-> <<>>, items |-> <<>>]

Ok(e, pos, left) ==
    [tag |-> "Ok", val |-> e, msg |-> "", pos |-> pos, left |-> left]
Err(msg, pos, left) ==
    [tag |-> "Err", val |-> NoExp, msg |-> msg, pos |-> pos, left |-> left]
\* a slice index out of range: the thread panics
Panic(pos, left) ==
    [tag |-> "Panic", val |-> NoExp, msg |-> "", pos |-> pos, left |-> left]

\* the atom arm of deserialize: idx is !idx as usize, an offset into
\* constant_pool.  constant_pool[idx..idx + 4] and
\* constant_pool[idx..idx + len as usize] panic when out of range; a negative
\* len is, as usize, past any pool.
DeserializeAtom(idx, constant_pool, pos, left) ==
    IF idx > Len(constant_pool) - 4
    THEN Panic(pos, left)
    ELSE LET len == FromLeBytes(SubSeq(constant_pool, idx + 1, idx + 4))
         IN  IF len < 0 \/ len > Len(constant_pool) - idx - 4
             THEN Panic(pos, left)
             ELSE Ok(Atom(SubSeq(constant_pool, idx + 5, idx + 4 + len)),
                     pos, left)

RECURSIVE deserialize(_, _, _, _)
RECURSIVE DeserializeItems(_, _, _, _, _, _)
\* repeat_with(|| Self::deserialize(..)).take(n).collect::<Result<Vec<_>, _>>()
DeserializeItems(bytes, pos, left, constant_pool, n, acc) ==
    IF n = 0 THEN Ok(List(acc), pos, left)
    ELSE LET d == deserialize(bytes, pos, left, constant_pool)
         IN  IF d.tag # "Ok" THEN d
             ELSE DeserializeItems(bytes, d.pos, d.left, constant_pool,
                                   n - 1, Append(acc, d.val))

\* idx_cursor is the byte cursor at pos with left items still to take
deserialize(bytes, pos, left, constant_pool) ==
    IF left = 0
    THEN Err("Invalid index encountered during deserialization.", pos, left)
    ELSE LET r == read_idx(bytes, pos)
         IN  IF ~r.ok
             THEN Err("Invalid index encountered during deserialization.",
                      r.pos, left - 1)
             ELSE IF r.val = 0
             THEN Ok(List(<<>>), r.pos, left - 1)
             ELSE IF r.val < 0
             THEN DeserializeAtom(Not32(r.val), constant_pool, r.pos, left - 1)
             ELSE DeserializeItems(bytes, r.pos, left - 1, constant_pool,
                                   r.val, <<>>)

from_bytes(bytes) ==
    LET h1 == read_idx(bytes, 0)
        h2 == read_idx(bytes, h1.pos)
    IN  IF ~h1.ok THEN Err("Not enough bytes to read.", h1.pos, 0)
        ELSE IF ~h2.ok THEN Err("Not enough bytes to read.", h2.pos, 0)
        ELSE LET n == TakeLen(h1.val, Len(bytes) - h2.pos)
                 constant_pool == SubSeq(bytes, h2.pos + 1, h2.pos + n)
             IN  deserialize(bytes, h2.pos + n,
                             TakeLen(h2.val, Len(bytes) + 1), constant_pool)

(***************************************************************************)
(* to_bytes and from_bytes driven as serialization_tests drives them: an   *)
(* expression is encoded and the bytes decoded.  The bytes may also reach  *)
(* from_bytes cut short or with one byte changed.                          *)
(***************************************************************************)
\* the atoms of the expressions: the empty one, "a" and "bc"
AtomValues == {<<>>, <<97>>, <<98, 99>>}

RECURSIVE ExprsOfSize(_)
RECURSIVE Forests(_)
\* the sequences of expressions of m nodes in all
Forests(m) ==
    IF m = 0 THEN {<<>>}
    ELSE UNION {{<<e>> \o f : e \in ExprsOfSize(k), f \in Forests(m - k)} :
                k \in 1..m}

\* the expressions of n nodes (atoms and lists)
ExprsOfSize(n) ==
    IF n = 1 THEN {Atom(a) : a \in AtomValues} \cup {List(<<>>)}
    ELSE {List(f) : f \in Forests(n - 1)}

Exprs == UNION {ExprsOfSize(n) : n \in 1..MaxNodes}

\* the bytes one byte of the buffer may be changed to
CorruptBytes == {0, 255}

NoOutcome == [tag |-> "None", val |-> NoExp, msg |-> ""]

FixInit ==
    /\ exp = NoExp
    /\ enc = EmptyPools
    /\ buf = <<>>
    /\ damage = "unset"
    /\ outcome = NoOutcome

\* let bytes = exp.to_bytes()
ToBytes(e) ==
    /\ damage = "unset"
    /\ exp' = e
    /\ enc' = serialize(e, EmptyPools)
    /\ buf' = Assemble(enc')
    /\ damage' = "none"
    /\ UNCHANGED outcome
    /\ UNCHANGED <<vliVars, fileVars>>

\* only the first n bytes reach from_bytes
FixTruncate(n) ==
    /\ damage = "none" /\ outcome = NoOutcome
    /\ n < Len(buf)
    /\ buf' = SubSeq(buf, 1, n)
    /\ damage' = "truncated"
    /\ UNCHANGED <<exp, enc, outcome>>
    /\ UNCHANGED <<vliVars, fileVars>>

\* byte i reaches from_bytes as b
FixCorrupt(i, b) ==
    /\ damage = "none" /\ outcome = NoOutcome
    /\ i <= Len(buf)
    /\ buf[i] # b
    /\ buf' = [buf EXCEPT ![i] = b]
    /\ damage' = "corrupted"
    /\ UNCHANGED <<exp, enc, outcome>>
    /\ UNCHANGED <<vliVars, fileVars>>

\* BSExp::from_bytes(&bytes)
FromBytes ==
    /\ damage # "unset" /\ outcome = NoOutcome
    /\ LET r == from_bytes(buf)
       IN  outcome' = [tag |-> r.tag, val |-> r.val, msg |-> r.msg]
    /\ UNCHANGED <<exp, enc, buf, damage>>
    /\ UNCHANGED <<vliVars, fileVars>>

\* the longest buffer to_bytes returns here
MaxBuf == 8 + 4 * MaxNodes + 6 * MaxNodes

FixNext ==
    \/ \E e \in Exprs : ToBytes(e)
    \/ \E n \in 0..MaxBuf : FixTruncate(n)
    \/ \E i \in 1..MaxBuf, b \in CorruptBytes : FixCorrupt(i, b)
    \/ FromBytes

(***************************************************************************)
(* serialization.rs : to_bsefile and from_bsefile                          *)
(***************************************************************************)
\* traverse_helper : todo!()
traverse_helper(x, st) == [tag |-> "Panic"]

\* x.write_vli_bytes(writer) : the writer is given each byte of the encoding
\* of x, in order
write_vli_bytes(x, out) == out \o VliSlice(x)

\* usize as u64, for the sizes reached here
UsizeAsU64(n) == U64(n)

\* to_bsefile.  The maps and buffers are created empty; root_indices is a lazy
\* iterator that nothing consumes, so traverse_helper is never called and
\* they stay empty; the file is the VLI of atom_map.len().
to_bsefile(self) ==
    LET atom_map == <<>>
        node_map == <<>>
        atom_buf == <<>>
        node_buf == <<>>
        file_buf == <<>>
    IN  write_vli_bytes(UsizeAsU64(Cardinality(DOMAIN atom_map)), file_buf)

\* from_bsefile : todo!()
from_bsefile(binary_file) == [tag |-> "Panic", val |-> <<>>]

\* the inputs of to_bsefile: the sequences of expressions of at most MaxNodes
\* nodes in all
Inputs == UNION {Forests(m) : m \in 0..MaxNodes}

NoDecoded == [tag |-> "None", val |-> <<>>]

FileInit ==
    /\ xs = <<>>
    /\ file = <<>>
    /\ decoded = NoDecoded
    /\ fstage = "start"

\* let file = (&input[..]).to_bsefile()
ToBsefile(input) ==
    /\ fstage = "start"
    /\ xs' = input
    /\ file' = to_bsefile(input)
    /\ fstage' = "encoded"
    /\ UNCHANGED decoded
    /\ UNCHANGED <<vliVars, fixVars>>

\* <&[BSExp]>::from_bsefile(&file)
FromBsefile ==
    /\ fstage = "encoded"
    /\ decoded' = from_bsefile(file)
    /\ fstage' = "decoded"
    /\ UNCHANGED <<xs, file>>
    /\ UNCHANGED <<vliVars, fixVars>>

FileNext ==
    \/ \E input \in Inputs : ToBsefile(input)
    \/ FromBsefile

(***************************************************************************)
(* Properties of the VLI codec.                                            *)
(***************************************************************************)
\* where the j-th encoding starts in the buffer, and its reported length
Start(j) == IF j = 1 THEN 0 ELSE ends[j - 1]
EncLen(j) == ends[j] - Start(j)

\* the j-th encoding is in the buffer whole
Whole(j) == ends[j] <= Len(stream)

\* the bytes of the j-th encoding
Segment(j) == SubSeq(stream, Start(j) + 1, ends[j])

\* the number of bits of v : 0 for 0, else 1 + its highest bit
RECURSIVE BitsBelow(_, _)
BitsBelow(v, n) == IF n = 0 \/ (n - 1) \in v THEN n ELSE BitsBelow(v, n - 1)
BitLen(v) == BitsBelow(v, 64)

Continues(b) == 7 \in b

VliTruncatedFails ==
    \A j \in 1..Len(results) :
        LET r == results[j]
            rest == Len(stream) - r.start
        IN  /\ (/\ rest <= 8
                /\ \A t \in 1..rest : Continues(stream[r.start + t])) => ~r.ok
            /\ (cut /\ j = Len(written)) => ~r.ok

\* the first value was read, and the read of the second, an encoding of 9
\* bytes cut to 8, failed
VliTruncatedFailsWitness ==
    /\ cut /\ Len(written) = 2 /\ Len(results) = 2
    /\ results[1].ok /\ ~results[2].ok
    /\ Len(stream) - results[2].start = 8

\* C10: a call makes at most 9 calls of the reader; a successful one stops at
\* the first of the first 8 bytes that does not continue, or at the 9th; a
\* failed one stops at the reader's first error; the call that reads a whole
\* encoding consumes exactly its bytes, whatever follows.
VliExactConsumption ==
    \A j \in 1..Len(results) :
        LET r == results[j]
        IN  /\ r.calls <= 9
            /\ r.ok =>
                  /\ r.consumed = r.calls
                  /\ r.consumed >= 1
                  /\ \A t \in 1..(r.consumed - 1) :
                        Continues(stream[r.start + t])
                  /\ r.consumed <= 8 =>
                        ~Continues(stream[r.start + r.consumed])
            /\ ~r.ok =>
                  /\ r.calls = r.consumed + 1
                  /\ r.start + r.consumed = Len(stream)
                  /\ \A t \in 1..r.consumed : Continues(stream[r.start + t])
            /\ (j <= Len(written) /\ Whole(j)) =>
                  /\ r.start = Start(j)
                  /\ r.consumed = EncLen(j)

\* an encoding of 9 bytes followed by a byte no encoder wrote: the call
\* consumed 9 bytes and left the 10th
VliExactConsumptionWitness ==
    /\ Len(written) = 1 /\ raw = 1 /\ Len(results) = 1
    /\ Len(stream) = 10
    /\ results[1].ok /\ results[1].consumed = 9 /\ results[1].calls = 9

(***************************************************************************)
(* Properties of the fixed-width format.                                   *)
(***************************************************************************)
\* C3: from_bytes of the bytes to_bytes returned is Ok of the expression
\* encoded.
FixRoundTrip ==
    (damage = "none" /\ outcome # NoOutcome) =>
        /\ outcome.tag = "Ok"
        /\ outcome.val = exp

\* (a (a)) with its repeated atom came back
FixRoundTripWitness ==
    /\ damage = "none"
    /\ exp = List(<<Atom(<<97>>), List(<<Atom(<<97>>)>>)>>)
    /\ outcome.tag = "Ok"
    /\ outcome.val = List(<<Atom(<<97>>), List(<<Atom(<<97>>)>>)>>)

RECURSIVE AtomsOf(_)
RECURSIVE AtomsOfItems(_, _)
\* the atoms of an expression, every occurrence, in the order of a
\* depth-first left-to-right walk
AtomsOfItems(l, i) ==
    IF i > Len(l) THEN <<>> ELSE AtomsOf(l[i]) \o AtomsOfItems(l, i + 1)
AtomsOf(e) == IF e.kind = "Atom" THEN <<e.bytes>> ELSE AtomsOfItems(e.items, 1)

\* the first occurrences in a sequence, in order
RECURSIVE FirstSeen(_, _)
FirstSeen(q, i) ==
    IF i = 0 THEN <<>>
    ELSE LET before == FirstSeen(q, i - 1)
         IN  IF \E k \in 1..Len(before) : before[k] = q[i] THEN before
             ELSE Append(before, q[i])

\* the entries <length as 4 bytes, content> of q from entry i on
RECURSIVE Entries(_, _)
Entries(q, i) ==
    IF i > Len(q) THEN <<>>
    ELSE <<Len(q[i]), 0, 0, 0>> \o q[i] \o Entries(q, i + 1)

\* the offset of the entry of a in the concatenated entries of q
RECURSIVE EntryOffset(_, _, _)
EntryOffset(q, a, i) ==
    IF q[i] = a THEN 0 ELSE 4 + Len(q[i]) + EntryOffset(q, a, i + 1)

NegativeIdx(x) == x < 0

\* C7: the constant pool holds one length-prefixed entry per distinct atom,
\* in first-seen order, and each occurrence of an atom in the node pool is
\* the reference to the entry of its content.
FixAtomDedup ==
    damage # "unset" =>
        LET atoms == AtomsOf(exp)
            distinct == FirstSeen(atoms, Len(atoms))
            refs == SelectSeq(enc.node_pool, NegativeIdx)
        IN  /\ enc.constant_pool = Entries(distinct, 1)
            /\ Len(refs) = Len(atoms)
            /\ \A i \in 1..Len(atoms) :
                  refs[i] = -EntryOffset(distinct, atoms[i], 1) - 1

\* (bc a bc): two entries in the pool, the first referenced twice
FixAtomDedupWitness ==
    /\ exp = List(<<Atom(<<98, 99>>), Atom(<<97>>), Atom(<<98, 99>>)>>)
    /\ enc.constant_pool = <<2, 0, 0, 0, 98, 99, 1, 0, 0, 0, 97>>
    /\ enc.node_pool = <<3, -1, -7, -1>>

\* C9: from_bytes returns Ok or Err on every buffer and never aborts; on a
\* truncated buffer it returns Err, and an Err carries no expression.
FixDecodeNeverAborts ==
    outcome # NoOutcome =>
        /\ outcome.tag \in {"Ok", "Err"}
        /\ damage = "truncated" => outcome.tag = "Err"
        /\ outcome.tag = "Err" =>
              /\ outcome.val = NoExp
              /\ outcome.msg \in
                    {"Not enough bytes to read.",
                     "Invalid constant pool index.",
                     "Invalid index encountered during deserialization."}

(***************************************************************************)
(* Properties of the pool container format.                                *)
(***************************************************************************)
\* C1: from_bsefile of the bytes to_bsefile returned for xs returns xs.
FileRoundTrip ==
    fstage = "decoded" =>
        /\ decoded.tag = "Ok"
        /\ decoded.val = xs

RECURSIVE AtomsOfAll(_, _)
\* the atoms of a sequence of expressions, every occurrence
AtomsOfAll(q, i) ==
    IF i > Len(q) THEN <<>> ELSE AtomsOf(q[i]) \o AtomsOfAll(q, i + 1)

RECURSIVE SkipVlis(_, _, _)
\* the position after n VLIs read from position p of s, or -1 if one fails
SkipVlis(s, p, n) ==
    IF n = 0 THEN p
    ELSE LET r == read_vli_bytes(s, p)
         IN  IF r.ok THEN SkipVlis(s, p + r.consumed, n - 1) ELSE -1

\* C8: the file is VLI(atom count), VLI(atom buffer length), the atom buffer,
\* VLI(root count), a VLI per root, VLI(node count), VLI(node buffer length)
\* and the node buffer, in this order and nothing else; atom count is the
\* number of distinct atoms of xs and root count the length of xs.
FileLayout ==
    fstage # "start" =>
        LET atoms == AtomsOfAll(xs, 1)
            atomCount == read_vli_bytes(file, 0)
            atomBufLen == read_vli_bytes(file, atomCount.consumed)
            rootsAt == atomCount.consumed + atomBufLen.consumed
                       + Num(atomBufLen.val)
            rootCount == read_vli_bytes(file, rootsAt)
            nodesAt == SkipVlis(file, rootsAt + rootCount.consumed, Len(xs))
            nodeCount == read_vli_bytes(file, nodesAt)
            nodeBufLen == read_vli_bytes(file, nodesAt + nodeCount.consumed)
        IN  /\ atomCount.ok
            /\ Num(atomCount.val) = Len(FirstSeen(atoms, Len(atoms)))
            /\ atomBufLen.ok
            /\ rootsAt <= Len(file)
            /\ rootCount.ok
            /\ Num(rootCount.val) = Len(xs)
            /\ nodesAt >= 0
            /\ nodeCount.ok
            /\ nodeBufLen.ok
            /\ nodesAt + nodeCount.consumed + nodeBufLen.consumed
               + Num(nodeBufLen.val) = Len(file)

(***************************************************************************)
(* The specifications: one per part of the crate, the other parts idle.    *)
(***************************************************************************)
Init == VliInit /\ FixInit /\ FileInit

SpecVli == Init /\ [][VliNext]_vars

SpecFix == Init /\ [][FixNext]_vars

SpecFile == Init /\ [][FileNext]_vars

====
